---- MODULE Spec2Model ----
(***************************************************************************)
(* Model of the command-line harness of aoc2k22 (src/src/cmd.rs and        *)
(* src/src/main.rs): parsing of path fragments, of the query and of the    *)
(* candidate file names, the resolution of the input files and the run of   *)
(* the solvers of src/src/day/mod.rs on the accepted files.                *)
(*                                                                         *)
(* A Rust string is a sequence of one-character strings; Option<T> is a    *)
(* sequence of length 0 (None) or 1 (Some); Result<T, E> is a record with  *)
(* field ok and field val or err.                                          *)
(***************************************************************************)
EXTENDS Integers, Sequences, FiniteSets, TLC

VARIABLES argv, dir, pc, command, listed, files, i, input_files,
          file_path, file_type, fragment, result, j, calls, outcome

vars == <<argv, dir, pc, command, listed, files, i, input_files,
          file_path, file_type, fragment, result, j, calls, outcome>>

\* the state of the loop of Command::run
run_vars == <<j, calls, outcome>>

----------------------------------------------------------------------------
(* Bounds of the model. *)

\* longest directory listing
MaxFiles == 3

\* longest digit run of a generated token
MaxDigits == 3

\* usize::MAX, scaled down so that the overflow of str::parse::<usize>
\* happens on the tokens of the model
UsizeMax == 99

----------------------------------------------------------------------------
(* Option and Result. *)

None == <<>>

Some(x) == <<x>>

Ok(v) == [ok |-> TRUE, val |-> v]

Err(e) == [ok |-> FALSE, err |-> e]

----------------------------------------------------------------------------
(* Characters. *)

DigitVal ==
    ("0" :> 0) @@ ("1" :> 1) @@ ("2" :> 2) @@ ("3" :> 3) @@ ("4" :> 4) @@
    ("5" :> 5) @@ ("6" :> 6) @@ ("7" :> 7) @@ ("8" :> 8) @@ ("9" :> 9)

is_ascii_digit(c) == c \in DOMAIN DigitVal

UpperToLower ==
    ("A" :> "a") @@ ("B" :> "b") @@ ("C" :> "c") @@ ("D" :> "d") @@
    ("E" :> "e") @@ ("F" :> "f") @@ ("G" :> "g") @@ ("H" :> "h") @@
    ("I" :> "i") @@ ("J" :> "j") @@ ("K" :> "k") @@ ("L" :> "l") @@
    ("M" :> "m") @@ ("N" :> "n") @@ ("O" :> "o") @@ ("P" :> "p") @@
    ("Q" :> "q") @@ ("R" :> "r") @@ ("S" :> "s") @@ ("T" :> "t") @@
    ("U" :> "u") @@ ("V" :> "v") @@ ("W" :> "w") @@ ("X" :> "x") @@
    ("Y" :> "y") @@ ("Z" :> "z")

to_lowercase(s) ==
    [k \in 1..Len(s) |-> IF s[k] \in DOMAIN UpperToLower
                         THEN UpperToLower[s[k]] ELSE s[k]]

\* a byte of an OsStr that is not valid Unicode
InvalidByte == "<FF>"

----------------------------------------------------------------------------
(* String helpers of the standard library, as the code uses them. *)

\* str::find with the predicate is_ascii_digit: position (from 1) of the
\* first digit of s, 0 when s has none
RECURSIVE find_digit_from(_, _)
find_digit_from(s, k) ==
    IF k > Len(s) THEN 0
    ELSE IF is_ascii_digit(s[k]) THEN k
    ELSE find_digit_from(s, k + 1)

find_digit(s) == find_digit_from(s, 1)

\* position (from 1) of the first occurrence of the character sep, 0 if none
RECURSIVE find_char_from(_, _, _)
find_char_from(s, sep, k) ==
    IF k > Len(s) THEN 0
    ELSE IF s[k] = sep THEN k
    ELSE find_char_from(s, sep, k + 1)

\* str::split(sep): the pieces between the separators, in order; a string
\* without separator, the empty one included, gives one piece
RECURSIVE split(_, _)
split(s, sep) ==
    LET p == find_char_from(s, sep, 1)
    IN IF p = 0 THEN <<s>>
       ELSE <<SubSeq(s, 1, p - 1)>> \o split(SubSeq(s, p + 1, Len(s)), sep)

\* str::parse::<usize>, on a string that starts with a digit: the digits are
\* folded from the left with checked multiplication and addition
RECURSIVE parse_usize_from(_, _, _)
parse_usize_from(s, k, acc) ==
    IF k > Len(s) THEN Ok(acc)
    ELSE IF ~is_ascii_digit(s[k]) THEN Err("InvalidDigit")
    ELSE IF acc * 10 + DigitVal[s[k]] > UsizeMax THEN Err("PosOverflow")
    ELSE parse_usize_from(s, k + 1, acc * 10 + DigitVal[s[k]])

parse_usize(s) ==
    IF Len(s) = 0 THEN Err("Empty") ELSE parse_usize_from(s, 1, 0)

\* Iterator::collect::<Result<Vec<_>, _>>: the first error in order, or the
\* values
RECURSIVE collect_from(_, _)
collect_from(rs, k) ==
    IF k > Len(rs) THEN Ok(<<>>)
    ELSE IF ~rs[k].ok THEN rs[k]
    ELSE LET rest == collect_from(rs, k + 1)
         IN IF rest.ok THEN Ok(<<rs[k].val>> \o rest.val) ELSE rest

collect(rs) == collect_from(rs, 1)

----------------------------------------------------------------------------
(* ArgPathFragment and ArgPath. *)

\* ArgPathFragment::parse with the whole token kept as the prefix
ArgPathFragment_parse_whole(s) ==
    IF Len(s) = 0 THEN Err([tag |-> "Empty"])
    ELSE LET idx == find_digit(s)
         IN IF idx # 0
            THEN LET index == parse_usize(SubSeq(s, idx, Len(s)))
                 IN IF index.ok
                    THEN Ok([prefix |-> s, index |-> Some(index.val)])
                    ELSE Err([tag |-> "InvalidIndex", s |-> s, e |-> index.err])
            ELSE Ok([prefix |-> s, index |-> None])

ArgPathFragment_parse(s) ==
    IF Len(s) = 0 THEN Err([tag |-> "Empty"])
    ELSE LET idx == find_digit(s)
         IN IF idx # 0
            THEN LET prefix == SubSeq(s, 1, idx - 1)
                     index  == parse_usize(SubSeq(s, idx, Len(s)))
                 IN IF index.ok
                    THEN Ok([prefix |-> prefix, index |-> Some(index.val)])
                    ELSE Err([tag |-> "InvalidIndex", s |-> s, e |-> index.err])
            ELSE Ok([prefix |-> s, index |-> None])

ArgPath_parse(s) ==
    IF Len(s) = 0 THEN Err([tag |-> "Empty"])
    ELSE LET tokens    == split(s, "/")
             fragments == collect([k \in 1..Len(tokens) |->
                                      ArgPathFragment_parse(tokens[k])])
         IN IF fragments.ok
            THEN Ok([value |-> s, fragments |-> fragments.val])
            ELSE fragments

\* Path::file_name().and_then(to_str): the entries of a directory listing
\* always have a final component; it is text unless it holds an invalid byte
file_name_to_str(path) ==
    IF \E k \in 1..Len(path) : path[k] = InvalidByte THEN None ELSE Some(path)

\* ArgPath::parse_path without the removal of the extension
ArgPath_parse_path_nopop(path) ==
    LET file_name == file_name_to_str(path)
    IN IF file_name = None THEN Err([tag |-> "InvalidPath", path |-> path])
       ELSE LET file_parts == split(file_name[1], ".")
                fragments  == collect([k \in 1..Len(file_parts) |->
                                          ArgPathFragment_parse(file_parts[k])])
            IN IF fragments.ok
               THEN Ok([value |-> file_name[1], fragments |-> fragments.val])
               ELSE fragments

ArgPath_parse_path(path) ==
    LET file_name == file_name_to_str(path)
    IN IF file_name = None THEN Err([tag |-> "InvalidPath", path |-> path])
       ELSE LET all_parts  == split(file_name[1], ".")
                \* file_parts.pop(): the extension is removed
                file_parts == SubSeq(all_parts, 1, Len(all_parts) - 1)
                fragments  == collect([k \in 1..Len(file_parts) |->
                                          ArgPathFragment_parse(file_parts[k])])
            IN IF fragments.ok
               THEN Ok([value |-> file_name[1], fragments |-> fragments.val])
               ELSE fragments

RECURSIVE fragment_from(_, _, _)
fragment_from(fragments, prefix, k) ==
    IF k > Len(fragments) THEN None
    ELSE IF fragments[k].prefix = prefix THEN Some(fragments[k])
    ELSE fragment_from(fragments, prefix, k + 1)

ArgPath_fragment(self, prefix) == fragment_from(self.fragments, prefix, 1)

ArgPath_fragment_index(self, prefix) ==
    LET f == ArgPath_fragment(self, prefix)
    IN IF f = None THEN None ELSE f[1].index

RECURSIVE disjoint_from(_, _, _)
disjoint_from(self, other, k) ==
    IF k > Len(self.fragments) THEN None
    ELSE IF k > Len(other.fragments) THEN Some(self.fragments[k])
    ELSE IF self.fragments[k] # other.fragments[k] THEN Some(self.fragments[k])
    ELSE disjoint_from(self, other, k + 1)

\* ArgPath::disjoint comparing the prefixes of the fragments only
RECURSIVE disjoint_prefixes_from(_, _, _)
disjoint_prefixes_from(self, other, k) ==
    IF k > Len(self.fragments) THEN None
    ELSE IF k > Len(other.fragments) THEN Some(self.fragments[k])
    ELSE IF self.fragments[k].prefix # other.fragments[k].prefix
    THEN Some(self.fragments[k])
    ELSE disjoint_prefixes_from(self, other, k + 1)

ArgPath_disjoint_prefixes(self, other) == disjoint_prefixes_from(self, other, 1)

ArgPath_disjoint(self, other) == disjoint_from(self, other, 1)

----------------------------------------------------------------------------
(* Text constants of the code. *)

s_part == <<"p", "a", "r", "t">>

s_input == <<"i", "n", "p", "u", "t">>

s_test == <<"t", "e", "s", "t">>

s_solve == <<"s", "o", "l", "v", "e">>

s_day == <<"d", "a", "y">>

RECURSIVE file_type_from(_, _)
file_type_from(fragments, k) ==
    IF k > Len(fragments) THEN None
    ELSE LET prefix == to_lowercase(fragments[k].prefix)
         IN IF prefix = s_input THEN Some("Input")
            ELSE IF prefix = s_test THEN Some("Test")
            ELSE file_type_from(fragments, k + 1)

get_file_type(path) == file_type_from(path.fragments, 1)

\* read_input_files on a listing that succeeds: the paths of the entries
\* that are regular files, in listing order
RECURSIVE regular_files(_)
regular_files(entries) ==
    IF Len(entries) = 0 THEN <<>>
    ELSE (IF Head(entries).is_file THEN <<Head(entries).name>> ELSE <<>>)
         \o regular_files(Tail(entries))

\* Command::parse taking an empty query as the query without fragments
Command_parse_lenient(args) ==
    IF Len(args) < 1 THEN Err([tag |-> "MissingCommand"])
    ELSE LET cmd == to_lowercase(args[1])
         IN IF ~(cmd = s_test \/ cmd = s_solve)
            THEN Err([tag |-> "InvalidCommand", command |-> cmd])
            ELSE IF Len(args) < 2
            THEN Err([tag |-> "MissingPath", command |-> cmd])
            ELSE LET path == IF Len(args[2]) = 0
                             THEN Ok([value |-> <<>>, fragments |-> <<>>])
                             ELSE ArgPath_parse(args[2])
                 IN IF ~path.ok
                    THEN Err([tag |-> "InvalidPath", e |-> path.err])
                    ELSE Ok([kind |-> IF cmd = s_test THEN "Test" ELSE "Solve",
                             args |-> [path |-> path.val]])

Command_parse(args) ==
    IF Len(args) < 1 THEN Err([tag |-> "MissingCommand"])
    ELSE LET cmd == to_lowercase(args[1])
         IN IF ~(cmd = s_test \/ cmd = s_solve)
            THEN Err([tag |-> "InvalidCommand", command |-> cmd])
            ELSE IF Len(args) < 2
            THEN Err([tag |-> "MissingPath", command |-> cmd])
            ELSE LET path == ArgPath_parse(args[2])
                 IN IF ~path.ok
                    THEN Err([tag |-> "InvalidPath", e |-> path.err])
                    ELSE Ok([kind |-> IF cmd = s_test THEN "Test" ELSE "Solve",
                             args |-> [path |-> path.val]])

----------------------------------------------------------------------------
(* Command::resolve_input_files, the decision taken for one candidate. *)

\* resolve_accepts with the kind of the file checked against the command on
\* the candidates without divergence too
resolve_accepts_gated(is_test, arg_fragment, ftype, frag) ==
    IF ftype = None THEN FALSE
    ELSE IF frag # None
    THEN IF frag[1].prefix = s_part
         THEN IF (ftype[1] = "Test" /\ ~is_test) \/ (ftype[1] = "Input" /\ is_test)
              THEN FALSE
              ELSE IF arg_fragment # None /\ frag[1].index # None
                      /\ arg_fragment[1] = frag[1].index[1]
              THEN TRUE
              ELSE IF arg_fragment = None THEN TRUE
              ELSE FALSE
         ELSE IF frag[1].prefix = s_input /\ ~is_test THEN TRUE
         ELSE IF frag[1].prefix = s_test /\ is_test THEN TRUE
         ELSE FALSE
    ELSE ~((ftype[1] = "Test" /\ ~is_test) \/ (ftype[1] = "Input" /\ is_test))

\* resolve_accepts without the check of the kind at a "part" divergence
resolve_accepts_nogate(is_test, arg_fragment, ftype, frag) ==
    IF ftype = None THEN FALSE
    ELSE IF frag # None
    THEN IF frag[1].prefix = s_part
         THEN IF arg_fragment # None /\ frag[1].index # None
                 /\ arg_fragment[1] = frag[1].index[1]
              THEN TRUE
              ELSE IF arg_fragment = None THEN TRUE
              ELSE FALSE
         ELSE IF frag[1].prefix = s_input /\ ~is_test THEN TRUE
         ELSE IF frag[1].prefix = s_test /\ is_test THEN TRUE
         ELSE FALSE
    ELSE TRUE

\* resolve_accepts without the comparison of the two part indexes
resolve_accepts_anypart(is_test, arg_fragment, ftype, frag) ==
    IF ftype = None THEN FALSE
    ELSE IF frag # None
    THEN IF frag[1].prefix = s_part
         THEN IF (ftype[1] = "Test" /\ ~is_test) \/ (ftype[1] = "Input" /\ is_test)
              THEN FALSE
              ELSE IF arg_fragment # None /\ frag[1].index # None
              THEN TRUE
              ELSE IF arg_fragment = None THEN TRUE
              ELSE FALSE
         ELSE IF frag[1].prefix = s_input /\ ~is_test THEN TRUE
         ELSE IF frag[1].prefix = s_test /\ is_test THEN TRUE
         ELSE FALSE
    ELSE TRUE

\* resolve_accepts with a diverging fragment without index taken as a match
resolve_accepts_wild(is_test, arg_fragment, ftype, frag) ==
    IF ftype = None THEN FALSE
    ELSE IF frag # None
    THEN IF frag[1].prefix = s_part
         THEN IF (ftype[1] = "Test" /\ ~is_test) \/ (ftype[1] = "Input" /\ is_test)
              THEN FALSE
              ELSE IF arg_fragment # None /\ frag[1].index # None
                      /\ arg_fragment[1] = frag[1].index[1]
              THEN TRUE
              ELSE IF arg_fragment = None \/ frag[1].index = None THEN TRUE
              ELSE FALSE
         ELSE IF frag[1].prefix = s_input /\ ~is_test THEN TRUE
         ELSE IF frag[1].prefix = s_test /\ is_test THEN TRUE
         ELSE FALSE
    ELSE TRUE

\* resolve_accepts with a divergence at "input" accepted under any command
resolve_accepts_anyinput(is_test, arg_fragment, ftype, frag) ==
    IF ftype = None THEN FALSE
    ELSE IF frag # None
    THEN IF frag[1].prefix = s_part
         THEN IF (ftype[1] = "Test" /\ ~is_test) \/ (ftype[1] = "Input" /\ is_test)
              THEN FALSE
              ELSE IF arg_fragment # None /\ frag[1].index # None
                      /\ arg_fragment[1] = frag[1].index[1]
              THEN TRUE
              ELSE IF arg_fragment = None THEN TRUE
              ELSE FALSE
         ELSE IF frag[1].prefix = s_input THEN TRUE
         ELSE IF frag[1].prefix = s_test /\ is_test THEN TRUE
         ELSE FALSE
    ELSE TRUE

\* lines 241-267: TRUE when the candidate is pushed to input_files
resolve_accepts(is_test, arg_fragment, ftype, frag) ==
    IF ftype = None THEN FALSE
    ELSE IF frag # None
    THEN IF frag[1].prefix = s_part
         THEN IF (ftype[1] = "Test" /\ ~is_test) \/ (ftype[1] = "Input" /\ is_test)
              THEN FALSE
              ELSE IF arg_fragment # None /\ frag[1].index # None
                      /\ arg_fragment[1] = frag[1].index[1]
              THEN TRUE
              ELSE IF arg_fragment = None THEN TRUE
              ELSE FALSE
         ELSE IF frag[1].prefix = s_input /\ ~is_test THEN TRUE
         ELSE IF frag[1].prefix = s_test /\ is_test THEN TRUE
         ELSE FALSE
    ELSE TRUE

----------------------------------------------------------------------------
(* The inputs: command lines and directories. *)

digit_char(d) == CHOOSE c \in DOMAIN DigitVal : DigitVal[c] = d

\* usize::to_string
RECURSIVE to_string(_)
to_string(n) ==
    IF n < 10 THEN <<digit_char(n)>>
    ELSE to_string(n \div 10) \o <<digit_char(n % 10)>>

\* the segments joined by the separator
RECURSIVE join(_, _)
join(segs, sep) ==
    IF Len(segs) = 0 THEN <<>>
    ELSE IF Len(segs) = 1 THEN segs[1]
    ELSE segs[1] \o <<sep>> \o join(Tail(segs), sep)

s_txt == <<"t", "x", "t">>

day(n) == s_day \o to_string(n)

part(n) == s_part \o to_string(n)

File(name) == [name |-> name, is_file |-> TRUE]

Directory(name) == [name |-> name, is_file |-> FALSE]

\* the listings of at most MaxFiles entries of U, no name listed twice
Listings(U) ==
    UNION { { l \in [1..n -> U] :
                \A a, b \in 1..n : a # b => l[a].name # l[b].name } :
            n \in 0..MaxFiles }

\* the query strings of the main specification
Queries ==
    { <<>>,
      day(1),
      day(2),
      join(<<day(1), part(1)>>, "/"),
      join(<<day(1), part(2)>>, "/"),
      join(<<day(1), s_part>>, "/"),
      join(<<day(1), part(1), s_input>>, "/"),
      join(<<day(1), s_input, part(1)>>, "/"),
      join(<<day(1), <<>>, part(1)>>, "/") }

Argvs ==
    { <<>>, <<s_solve>>, << <<"r", "u", "n">>, day(1)>> }
    \cup { <<c, q>> : c \in {s_solve, <<"T", "e", "s", "t">>}, q \in Queries }

\* the directory entries of the main specification
Entries ==
    { File(join(<<day(1), part(1), s_input, s_txt>>, ".")),
      File(join(<<day(1), part(2), s_input, s_txt>>, ".")),
      File(join(<<day(1), part(1), s_test, s_txt>>, ".")),
      File(join(<<day(1), s_part, s_input, s_txt>>, ".")),
      File(join(<<day(1), s_input, s_txt>>, ".")),
      File(join(<<day(1), part(1), <<"I", "n", "p", "u", "t">>, s_txt>>, ".")),
      File(s_txt) }

----------------------------------------------------------------------------
(* The solvers of src/src/day/mod.rs, as Command::run sees them.  What a    *)
(* solver returns depends on the content of the file: every result the     *)
(* code can produce is an outcome.                                         *)

\* the number of solvers of the table days
NumDays == 1

\* a panic of the collaborator
Panic(what) == [ok |-> FALSE, err |-> [tag |-> what], panic |-> TRUE]

IsPanic(r) == "panic" \in DOMAIN r

\* day - 1 on usize, in name and in prepare_solver: an overflow on day 0,
\* a panic when the build checks overflows, a wrap to usize::MAX otherwise
day_name_overflows(d) == d = 0

\* days.get(day - 1)
days_get(d) == IF d = 0 THEN UsizeMax < NumDays ELSE d - 1 < NumDays

\* Solver::test_expected of Day1
test_expected(p) == IF p = 1 THEN "24000" ELSE "45000"

\* Solver::solve_part1 and solve_part2 of Day1 on some lines
solve_part(p) ==
    { Ok(test_expected(p)), Ok("0"), Err([tag |-> "Generic"]) }
    \cup (IF p = 1 THEN {Panic("should have at least one elf")} ELSE {})

\* prepare_solver: the file is read, then the solver of the day is looked up
prepare_solver(d, rs) ==
    { Err([tag |-> "InputFile"]) }
    \cup (IF days_get(d) THEN rs ELSE { Err([tag |-> "UnknownDay", day |-> d]) })

\* run_solver
run_solver(p) ==
    IF p = 1 \/ p = 2 THEN solve_part(p)
    ELSE { Err([tag |-> "InvalidPart", part |-> p]) }

\* run_test
run_test(p) ==
    IF ~(p = 1 \/ p = 2) THEN { Panic("unreachable") }
    ELSE { IF r.ok /\ r.val # test_expected(p)
           THEN Err([tag |-> "Test", got |-> r.val, expected |-> test_expected(p)])
           ELSE r : r \in solve_part(IF p = 1 THEN 1 ELSE 2) }

day_solve(path, d, p) == prepare_solver(d, run_solver(p))

day_test(path, d, p) == prepare_solver(d, run_test(p))

\* run_handles with a failure of the solver printed and passed over under
\* Solve as under Test
run_handles_swallow(kind, input_file, r) ==
    IF IsPanic(r)
    THEN /\ pc' = "panic"
         /\ UNCHANGED <<result, j>>
    ELSE /\ j' = j + 1
         /\ UNCHANGED <<pc, result>>

\* Command::run, lines 293-326: what run does with the result r of the
\* collaborator on input_file
run_handles(kind, input_file, r) ==
    IF IsPanic(r)
    THEN /\ pc' = "panic"
         /\ UNCHANGED <<result, j>>
    ELSE IF kind = "Solve" /\ ~r.ok
    THEN /\ result' = Some(Err([tag |-> "SolverError", path |-> input_file,
                                e |-> r.err]))
         /\ pc' = "done"
         /\ UNCHANGED j
    ELSE /\ j' = j + 1
         /\ UNCHANGED <<pc, result>>

----------------------------------------------------------------------------
(* The program. *)

InitWith(A, U) ==
    /\ argv \in A
    /\ dir \in Listings(U)
    /\ pc = "parse"
    /\ command = None
    /\ listed = FALSE
    /\ files = <<>>
    /\ i = 0
    /\ input_files = <<>>
    /\ file_path = None
    /\ file_type = None
    /\ fragment = None
    /\ result = None
    /\ j = 0
    /\ calls = <<>>
    /\ outcome = None

Init == InitWith(Argvs, Entries)

\* main, line 9: Command::parse_from_args; an error goes to expect
ParseArgs ==
    /\ pc = "parse"
    /\ LET r == Command_parse(argv)
       IN IF r.ok
          THEN /\ command' = Some(r.val)
               /\ pc' = "list"
               /\ UNCHANGED result
          ELSE /\ result' = Some(r)
               /\ pc' = "done"
               /\ UNCHANGED command
    /\ UNCHANGED <<argv, dir, listed, files, i, input_files,
                   file_path, file_type, fragment>>
    /\ UNCHANGED run_vars

\* Command::run, line 274, and resolve_input_files up to line 238: the
\* directory is listed; the listing succeeds or fails
ReadInputFiles ==
    /\ pc = "list"
    /\ listed' = TRUE
    /\ \E io_ok \in BOOLEAN :
          IF io_ok
          THEN /\ files' = regular_files(dir)
               /\ i' = 1
               /\ pc' = "resolve"
               /\ UNCHANGED result
          ELSE /\ result' = Some(Err([tag |-> "ReadInputDirectory"]))
               /\ pc' = "done"
               /\ UNCHANGED <<files, i>>
    /\ input_files' = <<>>
    /\ UNCHANGED <<argv, dir, command, file_path, file_type, fragment>>
    /\ UNCHANGED run_vars

\* the iteration with a candidate that fails to parse skipped, not fatal
ResolveFile_skip ==
    /\ pc = "resolve"
    /\ i <= Len(files)
    /\ LET self == command[1]
           arg_fragment == ArgPath_fragment_index(self.args.path, s_part)
           is_test == self.kind = "Test"
           file == files[i]
           parsed == ArgPath_parse_path(file)
       IN IF ~parsed.ok
          THEN /\ i' = i + 1
               /\ UNCHANGED <<pc, result, input_files, file_path, file_type,
                              fragment>>
          ELSE LET ftype == get_file_type(parsed.val)
                   frag == IF ftype # None
                           THEN ArgPath_disjoint(parsed.val, self.args.path)
                           ELSE None
               IN /\ file_path' = Some(parsed.val)
                  /\ file_type' = ftype
                  /\ fragment' = frag
                  /\ input_files' =
                        IF resolve_accepts(is_test, arg_fragment, ftype, frag)
                        THEN Append(input_files, <<parsed.val, file>>)
                        ELSE input_files
                  /\ i' = i + 1
                  /\ UNCHANGED <<pc, result>>
    /\ UNCHANGED <<argv, dir, command, listed, files>>
    /\ UNCHANGED run_vars

\* one iteration of the loop of resolve_input_files, lines 239-268
ResolveFile ==
    /\ pc = "resolve"
    /\ i <= Len(files)
    /\ LET self == command[1]
           arg_fragment == ArgPath_fragment_index(self.args.path, s_part)
           is_test == self.kind = "Test"
           file == files[i]
           parsed == ArgPath_parse_path(file)
       IN IF ~parsed.ok
          THEN /\ result' = Some(Err([tag |-> "InvalidPath", e |-> parsed.err]))
               /\ pc' = "done"
               /\ input_files' = <<>>
               /\ UNCHANGED <<i, file_path, file_type, fragment>>
          ELSE LET ftype == get_file_type(parsed.val)
                   frag == IF ftype # None
                           THEN ArgPath_disjoint(parsed.val, self.args.path)
                           ELSE None
               IN /\ file_path' = Some(parsed.val)
                  /\ file_type' = ftype
                  /\ fragment' = frag
                  /\ input_files' =
                        IF resolve_accepts(is_test, arg_fragment, ftype, frag)
                        THEN Append(input_files, <<parsed.val, file>>)
                        ELSE input_files
                  /\ i' = i + 1
                  /\ UNCHANGED <<pc, result>>
    /\ UNCHANGED <<argv, dir, command, listed, files>>
    /\ UNCHANGED run_vars

\* resolve_input_files, line 270: Ok(input_files) goes back to Command::run
ResolveReturn ==
    /\ pc = "resolve"
    /\ i > Len(files)
    /\ pc' = "run"
    /\ j' = 1
    /\ UNCHANGED <<argv, dir, command, listed, files, i, input_files,
                   file_path, file_type, fragment, result, calls, outcome>>

\* the iteration with part 1 taken for a file without part index
RunFile_defaultpart ==
    /\ pc = "run"
    /\ j <= Len(input_files)
    /\ LET path == input_files[j][1]
           input_file == input_files[j][2]
           day_index == ArgPath_fragment_index(path, s_day)
           found == ArgPath_fragment_index(path, s_part)
           part_index == IF found = None THEN Some(1) ELSE found
       IN IF day_index = None
          THEN /\ result' = Some(Err([tag |-> "ResolvePath", path |-> input_file]))
               /\ pc' = "done"
               /\ UNCHANGED <<j, calls, outcome>>
          ELSE \E overflow_checks \in BOOLEAN :
                  IF day_name_overflows(day_index[1]) /\ overflow_checks
                  THEN /\ pc' = "panic"
                       /\ UNCHANGED <<result, j, calls, outcome>>
                  ELSE \E r \in (IF command[1].kind = "Test"
                                 THEN day_test(input_file, day_index[1], part_index[1])
                                 ELSE day_solve(input_file, day_index[1], part_index[1])) :
                          /\ calls' = Append(calls, input_file)
                          /\ outcome' = Some(r)
                          /\ run_handles(command[1].kind, input_file, r)
    /\ UNCHANGED <<argv, dir, command, listed, files, i, input_files,
                   file_path, file_type, fragment>>

\* one iteration of the loop of Command::run, lines 280-327
RunFile ==
    /\ pc = "run"
    /\ j <= Len(input_files)
    /\ LET path == input_files[j][1]
           input_file == input_files[j][2]
           day_index == ArgPath_fragment_index(path, s_day)
           part_index == ArgPath_fragment_index(path, s_part)
       IN IF day_index = None \/ part_index = None
          THEN /\ result' = Some(Err([tag |-> "ResolvePath", path |-> input_file]))
               /\ pc' = "done"
               /\ UNCHANGED <<j, calls, outcome>>
          ELSE \E overflow_checks \in BOOLEAN :
                  IF day_name_overflows(day_index[1]) /\ overflow_checks
                  THEN /\ pc' = "panic"
                       /\ UNCHANGED <<result, j, calls, outcome>>
                  ELSE \E r \in (IF command[1].kind = "Test"
                                 THEN day_test(input_file, day_index[1], part_index[1])
                                 ELSE day_solve(input_file, day_index[1], part_index[1])) :
                          /\ calls' = Append(calls, input_file)
                          /\ outcome' = Some(r)
                          /\ run_handles(command[1].kind, input_file, r)
    /\ UNCHANGED <<argv, dir, command, listed, files, i, input_files,
                   file_path, file_type, fragment>>

\* Command::run, lines 276-278 and 330: nothing is left to process
RunReturn ==
    /\ pc = "run"
    /\ j > Len(input_files)
    /\ result' = Some(Ok(<<>>))
    /\ pc' = "done"
    /\ UNCHANGED <<argv, dir, command, listed, files, i, input_files,
                   file_path, file_type, fragment, j, calls, outcome>>

Next ==
    \/ ParseArgs
    \/ ReadInputFiles
    \/ ResolveFile
    \/ ResolveReturn
    \/ RunFile
    \/ RunReturn

Spec == Init /\ [][Next]_vars

----------------------------------------------------------------------------
(* Further specifications: the same program on other inputs. *)

\* the days, parts and extensions of the day/part family
Days == {1, 3, 12}

Parts == {1, 2, 3}

Exts == {s_txt, <<"i", "n">>}

input_file(D, P, ext) == join(<<day(D), part(P), s_input, ext>>, ".")

test_file(D, P, ext) == join(<<day(D), part(P), s_test, ext>>, ".")

\* a directory around day D and the parts P and Q
Family(D, P, Q) ==
    { File(input_file(D, P, s_txt)), File(input_file(D, Q, s_txt)),
      File(test_file(D, P, s_txt)), File(input_file(D, P, <<"i", "n">>)) }

InitDayPart ==
    \E D \in Days, P \in Parts, Q \in Parts :
        /\ P # Q
        /\ InitWith({ <<c, q>> : c \in {s_solve, s_test},
                                 q \in {day(D), join(<<day(D), part(P)>>, "/")} },
                    Family(D, P, Q))

SpecDayPart == InitDayPart /\ [][Next]_vars

\* a directory with candidates that do not parse or are not classified
dot_txt == <<".">> \o s_txt

ErrEntries ==
    { File(input_file(1, 1, s_txt)),
      File(test_file(1, 1, s_txt)),
      File(dot_txt),
      File(join(<<day(1) \o <<"a">>, s_input, s_txt>>, ".")),
      File(<<"d", InvalidByte, ".", "t", "x", "t">>),
      File(join(<<day(1), <<"n", "o", "t", "e", "s">>, <<"m", "d">> >>, ".")),
      Directory(join(<<day(1), s_input>>, ".")) }

ErrArgvs ==
    { <<s_solve>>, <<s_solve, day(1)>>,
      <<s_test, join(<<day(1), part(1)>>, "/")>> }

InitErr == InitWith(ErrArgvs, ErrEntries)

SpecErr == InitErr /\ [][Next]_vars

\* a directory for the run of the solvers: days without solver, day 0,
\* parts without solver, a day or a part without index, two markers
RunEntries ==
    { File(input_file(1, 1, s_txt)),
      File(input_file(1, 3, s_txt)),
      File(test_file(1, 3, s_txt)),
      File(join(<<day(1), s_input, s_txt>>, ".")),
      File(input_file(0, 1, s_txt)),
      File(test_file(3, 1, s_txt)),
      File(join(<<s_day, part(1), s_input, s_txt>>, ".")),
      File(join(<<day(1), s_test, s_input, s_txt>>, ".")) }

RunArgvs ==
    { <<c, q>> : c \in {s_solve, s_test},
                 q \in { day(0), day(1), day(3), s_day,
                         join(<<day(1), s_test>>, "/") } }

InitRun == InitWith(RunArgvs, RunEntries)

SpecRun == InitRun /\ [][Next]_vars

\* queries of one token: letters followed by digits
MaxLetters == 2

Runs(alphabet, n) == UNION { [1..m -> alphabet] : m \in 1..n }

Tokens ==
    { l \o d : l \in Runs({"d", "x"}, MaxLetters),
               d \in Runs({"0", "1", "9"}, MaxDigits) }

InitToken ==
    InitWith({ <<s_solve, t>> : t \in Tokens },
             { File(input_file(1, 1, s_txt)),
               File(join(<< <<"d", "1">>, s_input, s_txt>>, ".")) })

SpecToken == InitToken /\ [][Next]_vars

----------------------------------------------------------------------------
(* Vocabulary of the properties. *)

\* a is a positional prefix of b, or equal to it
IsPrefix(a, b) == Len(a) <= Len(b) /\ \A k \in 1..Len(a) : a[k] = b[k]

\* the path f was pushed to input_files
Accepted(f) == \E e \in 1..Len(input_files) : input_files[e][2] = f

\* the loop of resolve_input_files has run without error on the candidates
\* 1..i-1
Resolving == pc \in {"resolve", "run"}

Query == command[1].args.path

IsTest == command[1].kind = "Test"

\* the candidate parses and is classified Input or Test
Classified(f) ==
    /\ ArgPath_parse_path(f).ok
    /\ get_file_type(ArgPath_parse_path(f).val) # None

FragmentsOf(f) == ArgPath_parse_path(f).val.fragments

ErrInvalidPath(e) == Err([tag |-> "InvalidPath", e |-> e])

----------------------------------------------------------------------------
(* C1 *)

\* C1, as stated: every classified candidate that has the query's fragments
\* as a positional prefix of its own fragments is accepted, whatever the
\* command, the kind of the file and its part index.
C1_QueryPrefixOfFileAccepted ==
    Resolving =>
        \A k \in 1..(i - 1) :
            (Classified(files[k])
             /\ IsPrefix(Query.fragments, FragmentsOf(files[k])))
            => Accepted(files[k])

\* C1, amended: every classified candidate whose own fragments are a
\* positional prefix of, or equal to, the query's fragments is accepted,
\* whatever the command, the kind of the file and its part index.
C1_FilePrefixOfQueryAccepted ==
    Resolving =>
        \A k \in 1..(i - 1) :
            (Classified(files[k])
             /\ IsPrefix(FragmentsOf(files[k]), Query.fragments))
            => Accepted(files[k])

\* an Input file without divergence from the query is accepted under Test
C1_Witness ==
    /\ Resolving
    /\ IsTest
    /\ \E k \in 1..(i - 1) :
          /\ Classified(files[k])
          /\ get_file_type(ArgPath_parse_path(files[k]).val) = Some("Input")
          /\ IsPrefix(FragmentsOf(files[k]), Query.fragments)
          /\ ArgPath_fragment_index(ArgPath_parse_path(files[k]).val, s_part) # None
          /\ Accepted(files[k])

----------------------------------------------------------------------------
(* C2 *)

\* C2: for every day D and part P, the query dayD accepts the candidate
\* dayD.partP.input.<ext> under Solve and rejects it under Test.
C2_DayQueryInputFile ==
    pc = "run" =>
        \A D \in Days, P \in Parts, ext \in Exts :
            (argv[2] = day(D)
             /\ \E k \in 1..Len(files) : files[k] = input_file(D, P, ext))
            => (Accepted(input_file(D, P, ext)) <=> ~IsTest)

\* the Test command has resolved the query day12 over a directory that
\* holds day12.part3.input.in, and has not accepted it
C2_Witness ==
    /\ pc = "run"
    /\ IsTest
    /\ argv[2] = day(12)
    /\ \E k \in 1..Len(files) : files[k] = input_file(12, 3, <<"i", "n">>)
    /\ ~Accepted(input_file(12, 3, <<"i", "n">>))

----------------------------------------------------------------------------
(* C3 *)

\* C3: for every day D and parts P # Q, Solve with the query dayD/partP over
\* the candidates dayD.partP.input.txt, dayD.partQ.input.txt and
\* dayD.partP.test.txt, in any order, accepts exactly dayD.partP.input.txt.
C3_ExactlyThePartInput ==
    (pc = "run" /\ ~IsTest) =>
        \A D \in Days, P \in Parts, Q \in Parts :
            (/\ P # Q
             /\ argv[2] = join(<<day(D), part(P)>>, "/")
             /\ Len(files) = 3
             /\ {files[k] : k \in 1..3} =
                   {input_file(D, P, s_txt), input_file(D, Q, s_txt),
                    test_file(D, P, s_txt)})
            => /\ Len(input_files) = 1
               /\ input_files[1][2] = input_file(D, P, s_txt)

\* the three candidates, the wanted one listed last, resolved under Solve
C3_Witness ==
    /\ pc = "run"
    /\ ~IsTest
    /\ argv[2] = join(<<day(3), part(2)>>, "/")
    /\ files = <<test_file(3, 2, s_txt), input_file(3, 1, s_txt),
                 input_file(3, 2, s_txt)>>
    /\ Len(input_files) = 1

----------------------------------------------------------------------------
(* C4 *)

\* the last candidate was classified and diverges from the query at a
\* fragment of prefix "part"
DivergesAtPart ==
    /\ Resolving
    /\ i > 1
    /\ file_type # None
    /\ fragment # None
    /\ fragment[1].prefix = s_part

KindMismatch ==
    \/ file_type = Some("Test") /\ ~IsTest
    \/ file_type = Some("Input") /\ IsTest

\* C4: a candidate that diverges at a "part" fragment is rejected when its
\* kind does not fit the command; otherwise it is accepted exactly when the
\* query has no part index or the query's part index equals the index of the
\* diverging fragment; it is rejected when the query has a part index and
\* the diverging fragment has none.
C4_PartDivergence ==
    DivergesAtPart =>
        LET q == ArgPath_fragment_index(Query, s_part)
        IN /\ KindMismatch => ~Accepted(files[i - 1])
           /\ ~KindMismatch =>
                 (Accepted(files[i - 1]) <=> (q = None \/ q = fragment[1].index))
           /\ (q # None /\ fragment[1].index = None) => ~Accepted(files[i - 1])

\* the kind fits, the query's part index is that of the diverging fragment
C4_Witness ==
    /\ DivergesAtPart
    /\ ~KindMismatch
    /\ ArgPath_fragment_index(Query, s_part) # None
    /\ ArgPath_fragment_index(Query, s_part) = fragment[1].index
    /\ Accepted(files[i - 1])

----------------------------------------------------------------------------
(* C5 *)

\* C5: the candidate ".txt" is skipped: the resolution never ends on it with
\* an error.
C5_DotTxtSkipped ==
    \A k \in 1..Len(files) :
        files[k] = dot_txt => ~(pc = "done" /\ i = k)

----------------------------------------------------------------------------
(* C6 *)

\* the letters and the digits of a token of the shape letters, digits
LettersOf(t) == SelectSeq(t, LAMBDA c : ~is_ascii_digit(c))

DigitsOf(t) == SelectSeq(t, LAMBDA c : is_ascii_digit(c))

RECURSIVE Pow10(_)
Pow10(n) == IF n = 0 THEN 1 ELSE 10 * Pow10(n - 1)

RECURSIVE DecimalValue(_)
DecimalValue(ds) ==
    IF Len(ds) = 0 THEN 0
    ELSE DigitVal[Head(ds)] * Pow10(Len(ds) - 1) + DecimalValue(Tail(ds))

LettersThenDigits(t) ==
    /\ Len(LettersOf(t)) >= 1
    /\ Len(DigitsOf(t)) >= 1
    /\ t = LettersOf(t) \o DigitsOf(t)

\* the query is one token and Command::parse has run on it
TokenParsed == pc # "parse" /\ Len(argv) = 2 /\ LettersThenDigits(argv[2])

\* C6, as stated: for every token of letters followed by digits, the parse
\* succeeds with the letters as prefix and the value of the digits as index,
\* and the prefix followed by the decimal rendering of the index is the token.
C6_RoundTrip ==
    TokenParsed =>
        /\ command # None
        /\ Len(Query.fragments) = 1
        /\ Query.fragments[1].prefix = LettersOf(argv[2])
        /\ Query.fragments[1].index = Some(DecimalValue(DigitsOf(argv[2])))
        /\ Query.fragments[1].prefix \o to_string(Query.fragments[1].index[1])
              = argv[2]

\* C6, amended: for every token of letters followed by digits whose value
\* fits in usize, the parse succeeds with the letters as prefix and the value
\* of the digits as index; the prefix followed by the decimal rendering of
\* the index is the token exactly when the digit run has no leading zero (it
\* is one digit long or does not start with 0).
C6_RoundTripNoLeadingZero ==
    (TokenParsed /\ DecimalValue(DigitsOf(argv[2])) <= UsizeMax) =>
        /\ command # None
        /\ Len(Query.fragments) = 1
        /\ Query.fragments[1].prefix = LettersOf(argv[2])
        /\ Query.fragments[1].index = Some(DecimalValue(DigitsOf(argv[2])))
        /\ (Query.fragments[1].prefix \o to_string(Query.fragments[1].index[1])
               = argv[2])
           <=> (Len(DigitsOf(argv[2])) = 1 \/ Head(DigitsOf(argv[2])) # "0")

\* a token of two letters and two digits without leading zero was parsed
C6_Witness ==
    /\ TokenParsed
    /\ command # None
    /\ Len(LettersOf(argv[2])) = 2
    /\ Len(DigitsOf(argv[2])) = 2
    /\ Head(DigitsOf(argv[2])) # "0"
    /\ Query.fragments[1].prefix \o to_string(Query.fragments[1].index[1])
          = argv[2]

----------------------------------------------------------------------------
(* C7 *)

\* C7, as stated: an ArgPath returned by ArgPath::parse or by
\* ArgPath::parse_path has at least one fragment.
C7_NeverEmpty ==
    /\ command # None => Len(Query.fragments) >= 1
    /\ file_path # None => Len(file_path[1].fragments) >= 1

HasDot(name) == \E k \in 1..Len(name) : name[k] = "."

\* C7, amended: an ArgPath returned by ArgPath::parse has at least one
\* fragment; an ArgPath returned by ArgPath::parse_path has at least one
\* fragment exactly when the file name holds a dot.
C7_NeverEmptyQuery ==
    /\ command # None => Len(Query.fragments) >= 1
    /\ file_path # None =>
          (Len(file_path[1].fragments) >= 1 <=> HasDot(file_path[1].value))

\* both constructors have returned, parse_path on a name without dot
C7_Witness ==
    /\ command # None
    /\ Len(Query.fragments) >= 2
    /\ file_path # None
    /\ ~HasDot(file_path[1].value)
    /\ Len(file_path[1].fragments) = 0

----------------------------------------------------------------------------
(* C8 *)

\* the ArgPaths of the state: the query and the candidates that parse
KnownPaths ==
    (IF command # None THEN {Query} ELSE {})
    \cup { ArgPath_parse_path(files[k]).val :
              k \in { n \in 1..Len(files) : ArgPath_parse_path(files[n]).ok } }

\* r is the fragment of a at the smallest position where b has no fragment
\* or another one
FirstDifference(r, a, b) ==
    \E m \in 1..Len(a) :
        /\ r = Some(a[m])
        /\ (m > Len(b) \/ a[m] # b[m])
        /\ \A n \in 1..(m - 1) : n <= Len(b) /\ a[n] = b[n]

DisjointAsSpecified(r, a, b) ==
    /\ r = None <=> IsPrefix(a.fragments, b.fragments)
    /\ r # None => FirstDifference(r, a.fragments, b.fragments)

\* C8: disjoint(self, other) is nothing exactly when the fragments of self
\* are a positional prefix of, or equal to, those of other (so on a spec and
\* itself); otherwise it is the fragment of self at the smallest position
\* where other has no fragment or a different (prefix, index) pair.
\* (the ArgPaths of a behaviour are those of the state where the loop of the
\* resolver starts: the pairs are compared there)
C8_Disjoint ==
    /\ (pc = "resolve" /\ i = 1) =>
          \A a \in KnownPaths, b \in KnownPaths :
              DisjointAsSpecified(ArgPath_disjoint(a, b), a, b)
    /\ (Resolving /\ i > 1 /\ file_type # None) =>
          DisjointAsSpecified(fragment, file_path[1], Query)

\* the resolver has compared a candidate with a query of the same fragments,
\* and another candidate of the listing differs from it in an index only
C8_Witness ==
    /\ Resolving
    /\ i > 1
    /\ file_type # None
    /\ file_path[1].fragments = Query.fragments
    /\ fragment = None
    /\ \E a \in KnownPaths :
          /\ Len(a.fragments) = Len(Query.fragments)
          /\ ArgPath_disjoint(a, Query) # None
          /\ ArgPath_disjoint(a, Query)[1].prefix = s_part

----------------------------------------------------------------------------
(* C9 *)

ValidCommandEmptyQuery ==
    /\ Len(argv) >= 2
    /\ to_lowercase(argv[1]) \in {s_solve, s_test}
    /\ argv[2] = <<>>

\* C9: with a valid command name and an empty query, Command::parse fails
\* with the empty-token error and the directory is never listed; the
\* directory is listed only once the query is constructed.
C9_EmptyQueryBeforeListing ==
    /\ ValidCommandEmptyQuery =>
          /\ ~listed
          /\ pc # "parse" =>
                (pc = "done" /\ result = Some(ErrInvalidPath([tag |-> "Empty"])))
    /\ listed => command # None

\* the invocation with the empty query has ended
C9_Witness ==
    /\ ValidCommandEmptyQuery
    /\ pc = "done"
    /\ ~listed

----------------------------------------------------------------------------
(* C10 *)

\* the first candidate of the listing that fails to parse, 0 if none
FirstFailing ==
    IF \A k \in 1..Len(files) : ArgPath_parse_path(files[k]).ok THEN 0
    ELSE CHOOSE k \in 1..Len(files) :
            /\ ~ArgPath_parse_path(files[k]).ok
            /\ \A n \in 1..(k - 1) : ArgPath_parse_path(files[n]).ok

\* the listing succeeded and resolve_input_files has returned
ResolveReturned ==
    \/ pc = "run"
    \/ /\ pc = "done"
       /\ listed
       /\ j = 0
       /\ result # Some(Err([tag |-> "ReadInputDirectory"]))

\* C10: after a successful listing, resolve_input_files returns an error if
\* and only if some candidate fails to parse; it then returns the parse error
\* of that candidate and no accepted file, wherever the candidate sits. A
\* candidate that parses and is not classified causes no error and is never
\* accepted.
C10_ErrorIffParseFailure ==
    /\ ResolveReturned =>
          /\ pc = "done" <=> FirstFailing # 0
          /\ pc = "done" =>
                /\ result = Some(ErrInvalidPath(
                                   ArgPath_parse_path(files[FirstFailing]).err))
                /\ input_files = <<>>
    /\ Resolving =>
          \A k \in 1..(i - 1) :
              (ArgPath_parse_path(files[k]).ok /\ ~Classified(files[k]))
              => ~Accepted(files[k])

\* the failing candidate is the last of three; the two before it parsed, one
\* of them unclassified
C10_Witness ==
    /\ pc = "done"
    /\ listed
    /\ Len(files) = 3
    /\ FirstFailing = 3
    /\ \E k \in 1..2 : ~Classified(files[k])
    /\ \E k \in 1..2 : Classified(files[k])
    /\ ~result[1].ok

----------------------------------------------------------------------------
(* C11 *)

\* the accepted file k has no indexed "day" or no indexed "part" fragment
Unresolvable(k) ==
    \/ ArgPath_fragment_index(input_files[k][1], s_day) = None
    \/ ArgPath_fragment_index(input_files[k][1], s_part) = None

\* the first accepted file that is unresolvable, 0 if none
FirstUnresolvable ==
    IF \A k \in 1..Len(input_files) : ~Unresolvable(k) THEN 0
    ELSE CHOOSE k \in 1..Len(input_files) :
            Unresolvable(k) /\ \A n \in 1..(k - 1) : ~Unresolvable(n)

\* Command::run has started its loop and has ended
RunEnded == j >= 1 /\ pc \in {"done", "panic"}

ErrResolvePath(f) == Err([tag |-> "ResolvePath", path |-> f])

ErrSolverError(f, e) == Err([tag |-> "SolverError", path |-> f, e |-> e])

\* the routines were invoked on the accepted files in resolution order, and
\* on no file from the first unresolvable one on
InOrderBeforeUnresolvable ==
    /\ Len(calls) <= Len(input_files)
    /\ \A n \in 1..Len(calls) : calls[n] = input_files[n][2]
    /\ FirstUnresolvable # 0 => Len(calls) < FirstUnresolvable

\* C11, as stated: the accepted files are processed in resolution order, and
\* the first accepted file without indexed "day" or "part" fragment makes run
\* return the ResolvePath error naming it, no solver or test routine being
\* invoked for it or for a later accepted file.
C11_UnresolvableEndsRun ==
    /\ InOrderBeforeUnresolvable
    /\ (RunEnded /\ pc = "done" /\ FirstUnresolvable # 0) =>
          result = Some(ErrResolvePath(input_files[FirstUnresolvable][2]))

\* C11, amended: the accepted files are processed in resolution order and no
\* solver or test routine is invoked for the first accepted file without
\* indexed "day" or "part" fragment nor for a later one; run returns the
\* ResolvePath error naming that file when it reaches it, that is unless an
\* earlier accepted file has ended run: by a solver failure under Solve or
\* by a panic.
C11_UnresolvableEndsRunWhenReached ==
    /\ InOrderBeforeUnresolvable
    /\ (RunEnded /\ FirstUnresolvable # 0) =>
          \/ /\ pc = "done"
             /\ j = FirstUnresolvable
             /\ result = Some(ErrResolvePath(input_files[FirstUnresolvable][2]))
          \/ /\ j < FirstUnresolvable
             /\ \/ pc = "panic"
                \/ /\ ~IsTest
                   /\ pc = "done"
                   /\ outcome # None
                   /\ result = Some(ErrSolverError(input_files[j][2],
                                                   outcome[1].err))

\* run has processed an accepted file and returned ResolvePath on the next
C11_Witness ==
    /\ pc = "done"
    /\ FirstUnresolvable >= 2
    /\ j = FirstUnresolvable
    /\ Len(calls) = FirstUnresolvable - 1
    /\ Len(input_files) > FirstUnresolvable
    /\ result = Some(ErrResolvePath(input_files[FirstUnresolvable][2]))

----------------------------------------------------------------------------
(* C12 *)

\* the last call of the solver or test routine has returned a failure
CollaboratorFailed ==
    /\ outcome # None
    /\ ~outcome[1].ok
    /\ ~IsPanic(outcome[1])

\* run has returned the failure of the last call and has gone no further
Propagated ==
    /\ pc = "done"
    /\ j = Len(calls)
    /\ result = Some(ErrSolverError(calls[Len(calls)], outcome[1].err))

\* C12, as stated: whenever the solver or test routine returns a failure for
\* an accepted file, run returns SolverError with the path of that file,
\* under Solve and under Test, and processes no later accepted file.
C12_FailurePropagated == CollaboratorFailed => Propagated

\* C12, amended: under the Solve command a failure of the solver for an
\* accepted file makes run return SolverError with the path of that file and
\* no later accepted file is processed; under the Test command the failure
\* is printed, run goes on with the next accepted file and never returns
\* SolverError.
C12_FailurePropagatedUnderSolve ==
    /\ (CollaboratorFailed /\ ~IsTest) => Propagated
    /\ (command # None /\ IsTest) =>
          /\ CollaboratorFailed => j = Len(calls) + 1
          /\ (result # None /\ ~result[1].ok) => result[1].err.tag # "SolverError"

\* the solver has failed on the second of three accepted files under Solve
C12_Witness ==
    /\ CollaboratorFailed
    /\ ~IsTest
    /\ Propagated
    /\ Len(calls) = 2
    /\ Len(input_files) = 3

----------------------------------------------------------------------------
(* C13 *)

\* the kind of the accepted file e is the kind of the command
KindOfCommand(e) ==
    get_file_type(input_files[e][1]) = Some(IF IsTest THEN "Test" ELSE "Input")

\* the smallest position where a has a fragment and b has none or another
\* one, 0 when a is a prefix of b
FirstDiffPos(a, b) ==
    IF IsPrefix(a, b) THEN 0
    ELSE CHOOSE m \in 1..Len(a) :
            /\ (m > Len(b) \/ a[m] # b[m])
            /\ \A n \in 1..(m - 1) : n <= Len(b) /\ a[n] = b[n]

IsMarker(f) == to_lowercase(f.prefix) \in {s_input, s_test}

\* the accepted file e diverges from the query at a fragment that no
\* "input" or "test" fragment of the file precedes
DivergesBeforeMarker(e) ==
    LET a == input_files[e][1].fragments
        m == FirstDiffPos(a, Query.fragments)
    IN m # 0 /\ \A n \in 1..(m - 1) : ~IsMarker(a[n])

\* C13, as stated: under Test every accepted file is classified Test, under
\* Solve every accepted file is classified Input.
C13_AcceptedKind ==
    Resolving => \A e \in 1..Len(input_files) : KindOfCommand(e)

\* C13, amended: every accepted file that diverges from the query at a
\* fragment not preceded, in the file, by an "input" or "test" fragment is
\* classified Test under the Test command and Input under the Solve command;
\* a file without divergence from the query, or that diverges after such a
\* fragment, can be accepted with the other kind.
C13_AcceptedKindAtDivergence ==
    Resolving =>
        \A e \in 1..Len(input_files) : DivergesBeforeMarker(e) => KindOfCommand(e)

\* the Test command has accepted a Test file that diverges at its part
C13_Witness ==
    /\ Resolving
    /\ IsTest
    /\ \E e \in 1..Len(input_files) :
          /\ DivergesBeforeMarker(e)
          /\ KindOfCommand(e)
          /\ ArgPath_fragment_index(input_files[e][1], s_part) = Some(3)

====
